---- MODULE Spec2Model ----
(***************************************************************************)
(* Cost-guard subsystem of codon-tasks: Budget, price table loaders,       *)
(* CostTracker, and the /ask route that reports usage against the cap.     *)
(*                                                                         *)
(* Money is counted in integer ticks of $0.001: the price (0.005, 0.015)   *)
(* per 1k tokens of the tests is <<5, 15>>, the cap 0.006 is 6.  Token     *)
(* counts and prices are drawn so that tokens/1000 * price is a whole      *)
(* number of ticks, which makes the integer arithmetic below exact.        *)
(* The same fixed point holds every float: warn_threshold_pct 0.8 is 800.  *)
(* Strings that the code takes apart are sequences of tokens: one          *)
(* character each for model names, one token for a fragment the code       *)
(* treats as a unit ("PRICE__", "__INPUT", a decimal literal).  A falsy    *)
(* string argument (None or "") is <<>>.                                   *)
(***************************************************************************)
EXTENDS Integers, Sequences, FiniteSets, TLC

(***************************************************************************)
(* Bounds of the model                                                     *)
(***************************************************************************)
\* token counts are 0, 1000, ..., MaxKTokens * 1000
MaxKTokens == 1
\* a charge is explored only while -MaxAmount <= total_usd <= MaxTotal
MaxTotal == 12
\* add_cost_dollars amounts range over -MaxAmount .. MaxAmount
MaxAmount == 1

(***************************************************************************)
(* Optional values: None is <<>>, a present value v is <<v>>               *)
(***************************************************************************)
None == <<>>
Some(v) == <<v>>

(***************************************************************************)
(* str.lower() on the characters the model uses                            *)
(***************************************************************************)
LowerChar(c) ==
  CASE c = "G" -> "g"
    [] c = "P" -> "p"
    [] c = "T" -> "t"
    [] c = "O" -> "o"
    [] c = "X" -> "x"
    [] c = "STRICT" -> "strict"
    [] c = "Strict" -> "strict"
    [] c = "SOFT" -> "soft"
    [] OTHER -> c

lower(s) == [i \in DOMAIN s |-> LowerChar(s[i])]

\* Python's `a or b` on strings: a falsy (empty) a yields b
StrOr(a, b) == IF a = <<>> THEN b ELSE a

(***************************************************************************)
(* Budget (cost_cap.py:41-54)                                              *)
(***************************************************************************)
Budget(cap, pct, mode) ==
  [cap_usd |-> cap, warn_threshold_pct |-> pct, enforce_mode |-> mode]

Caps == {-3, 0, 6}
EnforceModes == {<<"strict">>, <<"soft">>}
Budgets ==
  {Budget(c, 800, m) : c \in Caps, m \in EnforceModes}
    \cup {Budget(6, 500, <<"strict">>)}

(***************************************************************************)
(* Price tables: model key -> <<input_per_1k, output_per_1k>>              *)
(***************************************************************************)
gpt4o == <<"g", "p", "t", "4", "o">>
GPT4O == <<"G", "P", "T", "4", "O">>
ghost == <<"z">>

EmptyTable == <<>>
TableG == (gpt4o :> <<5, 15>>)
TableNeg == (gpt4o :> <<-5, 15>>)
Tables == {EmptyTable, TableG, TableNeg}
\* a table handed to the constructor whose key is not lower-case
TableUpper == (GPT4O :> <<5, 15>>)

ModelArgs == {gpt4o, GPT4O, ghost}
TokenCounts == {k * 1000 : k \in 0..MaxKTokens}
Amounts == (0 - MaxAmount)..MaxAmount

(***************************************************************************)
(* JSON values of the registry file, as json.load returns them             *)
(***************************************************************************)
JNum(n) == [kind |-> "num", v |-> n]
JStr(s) == [kind |-> "str", v |-> s]
JBool(b) == [kind |-> "bool", v |-> b]
JNull == [kind |-> "null", v |-> 0]
JList(items) == [kind |-> "list", v |-> items]
\* an object with fixed field names: v is a function field name -> value
JObj(fields) == [kind |-> "dict", v |-> fields]
\* the top-level "provider:model" map: v is a sequence of <<key, value>>
JMap(pairs) == [kind |-> "map", v |-> pairs]

\* Python truthiness of a JSON value
Truthy(j) ==
  CASE j.kind = "num" -> j.v # 0
    [] j.kind = "str" -> j.v # <<>>
    [] j.kind = "bool" -> j.v
    [] j.kind = "null" -> FALSE
    [] j.kind = "list" -> j.v # <<>>
    [] j.kind = "dict" -> DOMAIN j.v # {}
    [] OTHER -> j.v # <<>>

\* decimal literals float() accepts, with their value in thousandths
FloatLiterals ==
  (<<"0">> :> 0) @@ (<<"1">> :> 1000) @@ (<<"0.005">> :> 5) @@ (<<"0.015">> :> 15)
  @@ (<<"0.006">> :> 6) @@ (<<"0.02">> :> 20) @@ (<<"0.8">> :> 800)
  @@ (<<"0.5">> :> 500) @@ (<<"-0.005">> :> -5)

\* float(x): [ok |-> TRUE, val |-> n], or ok = FALSE when it raises
float(j) ==
  CASE j.kind = "num" -> [ok |-> TRUE, val |-> j.v]
    [] j.kind = "bool" -> [ok |-> TRUE, val |-> IF j.v THEN 1000 ELSE 0]
    [] j.kind = "str" ->
         IF j.v \in DOMAIN FloatLiterals
           THEN [ok |-> TRUE, val |-> FloatLiterals[j.v]]
           ELSE [ok |-> FALSE, val |-> 0]
    [] OTHER -> [ok |-> FALSE, val |-> 0]

\* str(x) of a JSON scalar
NumStr(n) ==
  IF \E l \in DOMAIN FloatLiterals : FloatLiterals[l] = n
    THEN CHOOSE l \in DOMAIN FloatLiterals : FloatLiterals[l] = n
    ELSE <<"#">>

str(j) ==
  CASE j.kind = "str" -> j.v
    [] j.kind = "num" -> NumStr(j.v)
    [] j.kind = "bool" -> IF j.v THEN <<"T", "r", "u", "e">> ELSE <<"F", "a", "l", "s", "e">>
    [] j.kind = "null" -> <<"N", "o", "n", "e">>
    [] OTHER -> <<"[", "]">>

(***************************************************************************)
(* price_loader.py                                                         *)
(***************************************************************************)
_PRICE_CACHE_TTL_SECS == 300

RECURSIVE lstrip(_)
lstrip(s) == IF s # <<>> /\ Head(s) = " " THEN lstrip(Tail(s)) ELSE s

RECURSIVE rstrip(_)
rstrip(s) ==
  IF s # <<>> /\ s[Len(s)] = " " THEN rstrip(SubSeq(s, 1, Len(s) - 1)) ELSE s

strip(s) == rstrip(lstrip(s))

\* _normalize on a string; the caller deals with non-string arguments
_normalize(name) == lower(strip(StrOr(name, <<>>)))

\* key.partition(":") -> <<before, after>>
partition(key) ==
  IF \E i \in DOMAIN key : key[i] = ":"
    THEN LET i == CHOOSE n \in DOMAIN key :
                    key[n] = ":" /\ \A m \in 1..(n - 1) : key[m] # ":"
         IN <<SubSeq(key, 1, i - 1), SubSeq(key, i + 1, Len(key))>>
    ELSE <<key, <<>>>>

RECURSIVE FilterDicts(_)
FilterDicts(items) ==
  IF items = <<>> THEN <<>>
  ELSE IF Head(items).kind = "dict"
         THEN <<Head(items).v>> \o FilterDicts(Tail(items))
         ELSE FilterDicts(Tail(items))

RECURSIVE MapRecords(_)
MapRecords(pairs) ==
  IF pairs = <<>> THEN <<>>
  ELSE LET key == Head(pairs)[1]
           val == Head(pairs)[2]
           pm == partition(key)
       IN IF val.kind # "dict" THEN MapRecords(Tail(pairs))
          ELSE <<val.v @@ ("provider" :> JStr(pm[1]) @@ "model" :> JStr(pm[2]))>>
                 \o MapRecords(Tail(pairs))

\* the sequence of record dicts _iter_records yields
_iter_records(blob) ==
  CASE blob.kind = "list" -> FilterDicts(blob.v)
    [] blob.kind = "map" -> MapRecords(blob.v)
    [] OTHER -> <<>>

_record_active(rec) ==
  IF "active" \in DOMAIN rec /\ ~Truthy(rec["active"]) THEN FALSE ELSE TRUE

\* rec.get(name, default)
RecGet(rec, name, default) == IF name \in DOMAIN rec THEN rec[name] ELSE default

Put(table, key, prices) == (key :> prices) @@ table

RECURSIVE PutAliases(_, _, _)
PutAliases(table, aliases, prices) ==
  IF aliases = <<>> THEN table
  ELSE LET alias_key == _normalize(str(Head(aliases)))
       IN PutAliases(IF alias_key # <<>> THEN Put(table, alias_key, prices) ELSE table,
                     Tail(aliases), prices)

\* mutant: only the canonical name is entered into the table
BuildStep_no_aliases(table, rec) ==
  LET name == RecGet(rec, "model", JStr(<<>>))
      in_price == IF "input_per_1k_usd" \in DOMAIN rec
                    THEN float(rec["input_per_1k_usd"]) ELSE [ok |-> FALSE, val |-> 0]
      out_price == IF "output_per_1k_usd" \in DOMAIN rec
                     THEN float(rec["output_per_1k_usd"]) ELSE [ok |-> FALSE, val |-> 0]
      prices == <<in_price.val, out_price.val>>
  IN IF ~_record_active(rec) THEN [raised |-> FALSE, table |-> table]
     ELSE IF Truthy(name) /\ name.kind # "str" THEN [raised |-> TRUE, table |-> table]
     ELSE IF ~Truthy(name) \/ _normalize(name.v) = <<>>
            THEN [raised |-> FALSE, table |-> table]
     ELSE IF ~in_price.ok \/ ~out_price.ok THEN [raised |-> FALSE, table |-> table]
     ELSE [raised |-> FALSE, table |-> Put(table, _normalize(name.v), prices)]

\* one iteration of the loop of _build_table: [raised, table]
BuildStep(table, rec) ==
  LET name == RecGet(rec, "model", JStr(<<>>))
      in_price == IF "input_per_1k_usd" \in DOMAIN rec
                    THEN float(rec["input_per_1k_usd"]) ELSE [ok |-> FALSE, val |-> 0]
      out_price == IF "output_per_1k_usd" \in DOMAIN rec
                     THEN float(rec["output_per_1k_usd"]) ELSE [ok |-> FALSE, val |-> 0]
      prices == <<in_price.val, out_price.val>>
      aliases == LET a == RecGet(rec, "aliases", JNull)
                 IN IF Truthy(a) THEN a ELSE JList(<<>>)
  IN IF ~_record_active(rec) THEN [raised |-> FALSE, table |-> table]
     \* a truthy non-string model has no .strip(): AttributeError
     ELSE IF Truthy(name) /\ name.kind # "str" THEN [raised |-> TRUE, table |-> table]
     ELSE IF ~Truthy(name) \/ _normalize(name.v) = <<>>
            THEN [raised |-> FALSE, table |-> table]
     ELSE IF ~in_price.ok \/ ~out_price.ok THEN [raised |-> FALSE, table |-> table]
     ELSE [raised |-> FALSE,
           table |-> IF aliases.kind = "list"
                       THEN PutAliases(Put(table, _normalize(name.v), prices),
                                       aliases.v, prices)
                       ELSE Put(table, _normalize(name.v), prices)]

RECURSIVE BuildFrom(_, _)
BuildFrom(table, records) ==
  IF records = <<>> THEN [raised |-> FALSE, table |-> table]
  ELSE LET r == BuildStep(table, Head(records))
       IN IF r.raised THEN r ELSE BuildFrom(r.table, Tail(records))

_build_table(records) == BuildFrom(<<>>, records)

\* mutant: a failing call empties the cache
load_price_table_from_json_clears(reg, cache, cache_mtime, clock) ==
  LET drop(exc, stat, read) ==
        [raised |-> exc, table |-> <<>>, cache |-> None, cache_mtime |-> None,
         stat |-> stat, read |-> read]
      built == _build_table(_iter_records(reg.json.blob))
  IN IF ~reg.exists THEN drop("FileNotFoundError", FALSE, FALSE)
     ELSE IF cache # None /\ cache_mtime # None
             /\ (clock - cache_mtime[1]) < _PRICE_CACHE_TTL_SECS
            THEN [raised |-> "none", table |-> cache[1], cache |-> cache,
                  cache_mtime |-> cache_mtime, stat |-> FALSE, read |-> FALSE]
     ELSE IF cache # None /\ cache_mtime = Some(reg.mtime)
            THEN [raised |-> "none", table |-> cache[1], cache |-> cache,
                  cache_mtime |-> cache_mtime, stat |-> TRUE, read |-> FALSE]
     ELSE IF ~reg.json.ok THEN drop("JSONDecodeError", TRUE, TRUE)
     ELSE IF built.raised THEN drop("AttributeError", TRUE, TRUE)
     ELSE [raised |-> "none", table |-> built.table,
           cache |-> Some(built.table), cache_mtime |-> Some(reg.mtime),
           stat |-> TRUE, read |-> TRUE]

\* mutant: every call reads and parses the file
load_price_table_from_json_no_cache(reg, cache, cache_mtime, clock) ==
  LET keep(exc, t, stat, read) ==
        [raised |-> exc, table |-> t, cache |-> cache, cache_mtime |-> cache_mtime,
         stat |-> stat, read |-> read]
      built == _build_table(_iter_records(reg.json.blob))
  IN IF ~reg.exists THEN keep("FileNotFoundError", <<>>, FALSE, FALSE)
     ELSE IF ~reg.json.ok THEN keep("JSONDecodeError", <<>>, TRUE, TRUE)
     ELSE IF built.raised THEN keep("AttributeError", <<>>, TRUE, TRUE)
     ELSE [raised |-> "none", table |-> built.table,
           cache |-> Some(built.table), cache_mtime |-> Some(reg.mtime),
           stat |-> TRUE, read |-> TRUE]

\* mutant: an unchanged marker after the TTL stores the time of the call
load_price_table_from_json_refresh(reg, cache, cache_mtime, clock) ==
  LET keep(exc, t, stat, read) ==
        [raised |-> exc, table |-> t, cache |-> cache, cache_mtime |-> cache_mtime,
         stat |-> stat, read |-> read]
      built == _build_table(_iter_records(reg.json.blob))
  IN IF ~reg.exists THEN keep("FileNotFoundError", <<>>, FALSE, FALSE)
     ELSE IF cache # None /\ cache_mtime # None
             /\ (clock - cache_mtime[1]) < _PRICE_CACHE_TTL_SECS
            THEN keep("none", cache[1], FALSE, FALSE)
     ELSE IF cache # None /\ cache_mtime = Some(reg.mtime)
            THEN [raised |-> "none", table |-> cache[1], cache |-> cache,
                  cache_mtime |-> Some(clock), stat |-> TRUE, read |-> FALSE]
     ELSE IF ~reg.json.ok THEN keep("JSONDecodeError", <<>>, TRUE, TRUE)
     ELSE IF built.raised THEN keep("AttributeError", <<>>, TRUE, TRUE)
     ELSE [raised |-> "none", table |-> built.table,
           cache |-> Some(built.table), cache_mtime |-> Some(reg.mtime),
           stat |-> TRUE, read |-> TRUE]

\* mutant: the cache is consulted before the file is looked for
load_price_table_from_json_cache_first(reg, cache, cache_mtime, clock) ==
  LET keep(exc, t, stat, read) ==
        [raised |-> exc, table |-> t, cache |-> cache, cache_mtime |-> cache_mtime,
         stat |-> stat, read |-> read]
      built == _build_table(_iter_records(reg.json.blob))
  IN IF cache # None /\ cache_mtime # None
        /\ (clock - cache_mtime[1]) < _PRICE_CACHE_TTL_SECS
       THEN keep("none", cache[1], FALSE, FALSE)
     ELSE IF ~reg.exists THEN keep("FileNotFoundError", <<>>, FALSE, FALSE)
     ELSE IF cache # None /\ cache_mtime = Some(reg.mtime)
            THEN keep("none", cache[1], TRUE, FALSE)
     ELSE IF ~reg.json.ok THEN keep("JSONDecodeError", <<>>, TRUE, TRUE)
     ELSE IF built.raised THEN keep("AttributeError", <<>>, TRUE, TRUE)
     ELSE [raised |-> "none", table |-> built.table,
           cache |-> Some(built.table), cache_mtime |-> Some(reg.mtime),
           stat |-> TRUE, read |-> TRUE]

\* outcome of load_price_table_from_json on the registry file `reg`
\* (exists, mtime, json = [ok, blob]) with the module cache and the clock:
\* [raised, table, cache, cache_mtime, stat, read]; stat and read tell
\* whether the call reached path.stat() and path.open()
load_price_table_from_json(reg, cache, cache_mtime, clock) ==
  LET keep(exc, t, stat, read) ==
        [raised |-> exc, table |-> t, cache |-> cache, cache_mtime |-> cache_mtime,
         stat |-> stat, read |-> read]
      built == _build_table(_iter_records(reg.json.blob))
  IN IF ~reg.exists THEN keep("FileNotFoundError", <<>>, FALSE, FALSE)
     ELSE IF cache # None /\ cache_mtime # None
             /\ (clock - cache_mtime[1]) < _PRICE_CACHE_TTL_SECS
            THEN keep("none", cache[1], FALSE, FALSE)
     ELSE IF cache # None /\ cache_mtime = Some(reg.mtime)
            THEN keep("none", cache[1], TRUE, FALSE)
     ELSE IF ~reg.json.ok THEN keep("JSONDecodeError", <<>>, TRUE, TRUE)
     ELSE IF built.raised THEN keep("AttributeError", <<>>, TRUE, TRUE)
     ELSE [raised |-> "none", table |-> built.table,
           cache |-> Some(built.table), cache_mtime |-> Some(reg.mtime),
           stat |-> TRUE, read |-> TRUE]

(***************************************************************************)
(* cost_cap.py: environment readers                                        *)
(***************************************************************************)
\* os.environ.get(name, default)
EnvGet(env, name, default) == IF name \in DOMAIN env THEN env[name] ELSE default

\* os.environ.get(name) as an optional value
EnvLookup(env, name) == IF name \in DOMAIN env THEN Some(env[name]) ELSE None

\* _env_float: [ok, val]; ok = FALSE is the ValueError of float()
_env_float(env, name, default) ==
  IF name \in DOMAIN env /\ env[name] # <<>>
    THEN float(JStr(env[name]))
    ELSE [ok |-> TRUE, val |-> default]

\* load_budget_from_env: [raised, budget]
load_budget_from_env(env) ==
  LET cap == _env_float(env, <<"COST_CAP_USD">>, 0)
      pct == _env_float(env, <<"COST_WARN_THRESHOLD_PCT">>, 800)
      mode == lower(EnvGet(env, <<"COST_ENFORCE">>, <<"strict">>))
  IN [raised |-> ~cap.ok \/ ~pct.ok,
      budget |-> Budget(cap.val, pct.val, mode)]

startswith(s, tok) == s # <<>> /\ s[1] = tok
endswith(s, tok) == s # <<>> /\ s[Len(s)] = tok

\* the PRICE__<MODEL>__INPUT keys of the environment
InputKeys(env) ==
  {k \in DOMAIN env : Len(k) >= 2 /\ startswith(k, "PRICE__") /\ endswith(k, "__INPUT")}

\* the orders in which os.environ.items() may visit the keys of env
Orders(env) ==
  {o \in [1..Cardinality(DOMAIN env) -> DOMAIN env] :
     \A i \in DOMAIN o, j \in DOMAIN o : o[i] = o[j] => i = j}

\* mutant: the model name is entered as spelled in the key
EnvStep_keeps_case(acc, env, k) ==
  LET model_key == SubSeq(k, 2, Len(k) - 1)
      in_price == float(JStr(env[k]))
      out_raw == EnvGet(env, <<"PRICE__">> \o model_key \o <<"__OUTPUT">>, <<"0">>)
      out_price == IF out_raw = <<>> THEN [ok |-> TRUE, val |-> 0]
                   ELSE float(JStr(out_raw))
  IN IF acc.raised THEN acc
     ELSE IF ~(Len(k) >= 2 /\ startswith(k, "PRICE__") /\ endswith(k, "__INPUT")) THEN acc
     ELSE IF ~in_price.ok \/ ~out_price.ok THEN [raised |-> TRUE, table |-> acc.table]
     ELSE [raised |-> FALSE,
           table |-> Put(acc.table, model_key, <<in_price.val, out_price.val>>)]

\* one iteration of the loop of load_price_table_from_env, on key k:
\* [raised, table]; raised is the ValueError of float()
EnvStep(acc, env, k) ==
  LET model_key == SubSeq(k, 2, Len(k) - 1)
      in_price == float(JStr(env[k]))
      out_raw == EnvGet(env, <<"PRICE__">> \o model_key \o <<"__OUTPUT">>, <<"0">>)
      out_price == IF out_raw = <<>> THEN [ok |-> TRUE, val |-> 0]
                   ELSE float(JStr(out_raw))
  IN IF acc.raised THEN acc
     ELSE IF ~(Len(k) >= 2 /\ startswith(k, "PRICE__") /\ endswith(k, "__INPUT")) THEN acc
     ELSE IF ~in_price.ok \/ ~out_price.ok THEN [raised |-> TRUE, table |-> acc.table]
     ELSE [raised |-> FALSE,
           table |-> Put(acc.table, lower(model_key), <<in_price.val, out_price.val>>)]

RECURSIVE EnvFold(_, _, _)
EnvFold(acc, env, order) ==
  IF order = <<>> THEN acc
  ELSE EnvFold(EnvStep(acc, env, Head(order)), env, Tail(order))

\* load_price_table_from_env when os.environ.items() visits the keys in
\* the given order: [raised, table]
load_price_table_from_env_in(env, order) ==
  EnvFold([raised |-> FALSE, table |-> <<>>], env, order)

\* load_price_table_from_env: [raised, table]; the order of the keys
\* matters only when two INPUT keys lowercase to the same model
load_price_table_from_env(env) ==
  load_price_table_from_env_in(env, CHOOSE o \in Orders(env) : TRUE)

\* load_price_table_auto: [raised, table, cache, cache_mtime]
load_price_table_auto(env, reg, cache, cache_mtime, clock) ==
  LET j == load_price_table_from_json(reg, cache, cache_mtime, clock)
      e == load_price_table_from_env(env)
  IN IF j.raised = "none" THEN j
     ELSE [raised |-> IF e.raised THEN "ValueError" ELSE "none", table |-> e.table,
           cache |-> j.cache, cache_mtime |-> j.cache_mtime,
           stat |-> j.stat, read |-> j.read]

(***************************************************************************)
(* cost_cap.py: CostCapExceeded and CostTracker                            *)
(***************************************************************************)
CostCapExceeded(attempted, cap, detail) ==
  [attempted |-> attempted, cap |-> cap, detail |-> detail]

\* mutant: both token counts priced at the input price
Cost_input_price_only(prompt_tokens, completion_tokens, per_in, per_out) ==
  (prompt_tokens * per_in + completion_tokens * per_in) \div 1000

\* tokens -> ticks: (prompt / 1000) * per_in + (completion / 1000) * per_out
Cost(prompt_tokens, completion_tokens, per_in, per_out) ==
  (prompt_tokens * per_in + completion_tokens * per_out) \div 1000

\* mutant: the total is committed before the cap check raises
_add_cost_lowers_mode(t, delta, context) ==
  LET attempted == t.total_usd + delta
      cap == t.budget.cap_usd
  IN IF cap > 0 /\ attempted >= cap /\ lower(t.budget.enforce_mode) = <<"strict">>
       THEN [raised |-> "CostCapExceeded",
             exc |-> Some(CostCapExceeded(attempted, cap, context)),
             total_usd |-> t.total_usd, ret |-> None]
       ELSE [raised |-> "none", exc |-> None,
             total_usd |-> attempted, ret |-> Some(attempted)]

_add_cost_latches(t, delta, context) ==
  LET attempted == t.total_usd + delta
      cap == t.budget.cap_usd
  IN IF cap > 0 /\ attempted >= cap /\ t.budget.enforce_mode = <<"strict">>
       THEN [raised |-> "CostCapExceeded",
             exc |-> Some(CostCapExceeded(attempted, cap, context)),
             total_usd |-> cap, ret |-> None]
       ELSE [raised |-> "none", exc |-> None,
             total_usd |-> attempted, ret |-> Some(attempted)]

_add_cost_commit_first(t, delta, context) ==
  LET attempted == t.total_usd + delta
      cap == t.budget.cap_usd
  IN IF cap > 0 /\ attempted >= cap /\ t.budget.enforce_mode = <<"strict">>
       THEN [raised |-> "CostCapExceeded",
             exc |-> Some(CostCapExceeded(attempted, cap, context)),
             total_usd |-> attempted, ret |-> None]
       ELSE [raised |-> "none", exc |-> None,
             total_usd |-> attempted, ret |-> Some(attempted)]

\* mutant: the cap is compared with the charge, not with the attempted total
_add_cost_delta_only(t, delta, context) ==
  LET attempted == t.total_usd + delta
      cap == t.budget.cap_usd
  IN IF cap > 0 /\ delta >= cap /\ t.budget.enforce_mode = <<"strict">>
       THEN [raised |-> "CostCapExceeded",
             exc |-> Some(CostCapExceeded(attempted, cap, context)),
             total_usd |-> t.total_usd, ret |-> None]
       ELSE [raised |-> "none", exc |-> None,
             total_usd |-> attempted, ret |-> Some(attempted)]

\* mutant: the boundary is exclusive (attempted > cap)
_add_cost_gt(t, delta, context) ==
  LET attempted == t.total_usd + delta
      cap == t.budget.cap_usd
  IN IF cap > 0 /\ attempted > cap /\ t.budget.enforce_mode = <<"strict">>
       THEN [raised |-> "CostCapExceeded",
             exc |-> Some(CostCapExceeded(attempted, cap, context)),
             total_usd |-> t.total_usd, ret |-> None]
       ELSE [raised |-> "none", exc |-> None,
             total_usd |-> attempted, ret |-> Some(attempted)]

\* mutant: the cap is enforced whatever the enforce mode
_add_cost_any_mode(t, delta, context) ==
  LET attempted == t.total_usd + delta
      cap == t.budget.cap_usd
  IN IF cap > 0 /\ attempted >= cap
       THEN [raised |-> "CostCapExceeded",
             exc |-> Some(CostCapExceeded(attempted, cap, context)),
             total_usd |-> t.total_usd, ret |-> None]
       ELSE [raised |-> "none", exc |-> None,
             total_usd |-> attempted, ret |-> Some(attempted)]

\* mutant: a cap of zero or less is enforced like any other
_add_cost_no_cap_check(t, delta, context) ==
  LET attempted == t.total_usd + delta
      cap == t.budget.cap_usd
  IN IF attempted >= cap /\ t.budget.enforce_mode = <<"strict">>
       THEN [raised |-> "CostCapExceeded",
             exc |-> Some(CostCapExceeded(attempted, cap, context)),
             total_usd |-> t.total_usd, ret |-> None]
       ELSE [raised |-> "none", exc |-> None,
             total_usd |-> attempted, ret |-> Some(attempted)]

\* mutant: the exception reports the charge instead of the attempted total
_add_cost_reports_delta(t, delta, context) ==
  LET attempted == t.total_usd + delta
      cap == t.budget.cap_usd
  IN IF cap > 0 /\ attempted >= cap /\ t.budget.enforce_mode = <<"strict">>
       THEN [raised |-> "CostCapExceeded",
             exc |-> Some(CostCapExceeded(delta, cap, context)),
             total_usd |-> t.total_usd, ret |-> None]
       ELSE [raised |-> "none", exc |-> None,
             total_usd |-> attempted, ret |-> Some(attempted)]

\* _add_cost on tracker t: [raised, exc, total_usd, ret]
_add_cost(t, delta, context) ==
  LET attempted == t.total_usd + delta
      cap == t.budget.cap_usd
  IN IF cap > 0 /\ attempted >= cap /\ t.budget.enforce_mode = <<"strict">>
       THEN [raised |-> "CostCapExceeded",
             exc |-> Some(CostCapExceeded(attempted, cap, context)),
             total_usd |-> t.total_usd, ret |-> None]
       ELSE [raised |-> "none", exc |-> None,
             total_usd |-> attempted, ret |-> Some(attempted)]

\* mutant: the model name is looked up as given
add_usage_exact_name(t, price_strict, model, prompt_tokens, completion_tokens) ==
  LET key == StrOr(model, <<>>)
      known == key \in DOMAIN t.price_table
      per == IF known THEN t.price_table[key] ELSE <<0, 0>>
      cost == Cost(prompt_tokens, completion_tokens, per[1], per[2])
  IN IF ~known /\ price_strict
       THEN [raised |-> "KeyError", exc |-> None,
             total_usd |-> t.total_usd, ret |-> None]
       ELSE _add_cost(t, cost, <<model, prompt_tokens, completion_tokens>>)

\* add_usage on tracker t under the module constant PRICE_STRICT
add_usage(t, price_strict, model, prompt_tokens, completion_tokens) ==
  LET key == lower(StrOr(model, <<>>))
      known == key \in DOMAIN t.price_table
      per == IF known THEN t.price_table[key] ELSE <<0, 0>>
      cost == Cost(prompt_tokens, completion_tokens, per[1], per[2])
  IN IF ~known /\ price_strict
       THEN [raised |-> "KeyError", exc |-> None,
             total_usd |-> t.total_usd, ret |-> None]
       ELSE _add_cost(t, cost, <<model, prompt_tokens, completion_tokens>>)

add_cost_dollars(t, usd, context) == _add_cost(t, usd, context)

\* mutant: the threshold itself does not count as near
near_threshold_gt(t) ==
  t.budget.cap_usd > 0
  /\ t.total_usd * 1000 > t.budget.cap_usd * t.budget.warn_threshold_pct

near_threshold(t) ==
  t.budget.cap_usd > 0
  /\ t.total_usd * 1000 >= t.budget.cap_usd * t.budget.warn_threshold_pct

(***************************************************************************)
(* main.py: the CostCapExceeded handler and the outcome of POST /ask       *)
(***************************************************************************)
cost_cap_handler(exc) ==
  [status_code |-> 402, error |-> "cost_cap_exceeded",
   cap |-> Some(exc.cap), attempted |-> Some(exc.attempted), warn |-> FALSE]

\* a response without a cost-cap body: 200 from the route, 500 from an
\* exception no handler is registered for
PlainResponse(status, warn) ==
  [status_code |-> status, error |-> "", cap |-> None, attempted |-> None,
   warn |-> warn]

\* the body of ask() on the tracker t0 that cost_guard yielded:
\* [response, exc]; exc is the CostCapExceeded that left the route, if any
ask_body(t0, price_strict) ==
  LET r == add_usage(t0, price_strict, gpt4o, 800, 200)
  IN IF r.raised = "CostCapExceeded"
       THEN [response |-> cost_cap_handler(r.exc[1]), exc |-> r.exc]
     ELSE IF r.raised = "KeyError"
       THEN [response |-> PlainResponse(500, FALSE), exc |-> None]
     ELSE [response |-> PlainResponse(200,
                          near_threshold([t0 EXCEPT !.total_usd = r.total_usd])),
           exc |-> None]

\* cost_guard() on the outcomes b of load_budget_from_env, e of
\* load_price_table_from_env and auto of load_price_table_auto, which
\* CostTracker.__init__ calls when e.table is falsy:
\* [raised, tracker, cache, cache_mtime]
cost_guard(b, e, auto, cache, cache_mtime) ==
  IF b.raised \/ e.raised
    THEN [raised |-> TRUE,
          tracker |-> [budget |-> b.budget, price_table |-> <<>>, total_usd |-> 0],
          cache |-> cache, cache_mtime |-> cache_mtime]
  ELSE IF e.table # <<>>
    THEN [raised |-> FALSE,
          tracker |-> [budget |-> b.budget, price_table |-> e.table, total_usd |-> 0],
          cache |-> cache, cache_mtime |-> cache_mtime]
  ELSE [raised |-> auto.raised # "none",
        tracker |-> [budget |-> b.budget, price_table |-> auto.table, total_usd |-> 0],
        cache |-> auto.cache, cache_mtime |-> auto.cache_mtime]

\* get_tracker entering the guard g, then ask(): [response, exc, cache, cache_mtime]
ask(g, price_strict) ==
  LET a == IF g.raised THEN [response |-> PlainResponse(500, FALSE), exc |-> None]
           ELSE ask_body(g.tracker, price_strict)
  IN [response |-> a.response, exc |-> a.exc,
      cache |-> g.cache, cache_mtime |-> g.cache_mtime]

(***************************************************************************)
(* State                                                                   *)
(***************************************************************************)
VARIABLES
  environ,             \* os.environ
  PRICE_STRICT,        \* cost_cap.PRICE_STRICT, fixed when the module is imported
  registry,            \* the file at PRICE_REGISTRY_PATH: [exists, mtime, json]
  _PRICE_CACHE,        \* price_loader._PRICE_CACHE
  _PRICE_CACHE_MTIME,  \* price_loader._PRICE_CACHE_MTIME
  now,                 \* time.time()
  constructed,         \* a CostTracker exists for the current run
  tracker,             \* its budget, price_table and total_usd
  ctor_env,            \* os.environ.get("PRICE_STRICT") when the tracker was constructed
  last,                \* the most recent call on the tracker and its outcome
  response,            \* the most recent response of POST /ask, if any
  ask_exc,             \* the CostCapExceeded that request raised, if any
  lastLoad,            \* the most recent observed loader call and its outcome
  source,              \* a parsed JSON document handed to the table builder
  built,               \* what _build_table made of it, once it has run
  pc,                  \* per thread: its position inside load_price_table_from_json
  loc,                 \* per thread: the locals of that call
  parse_count,         \* per file version (mtime): completed json.load calls
  scope                \* per cost_guard scope: its position, tracker and outcome

vars == <<environ, PRICE_STRICT, registry, _PRICE_CACHE, _PRICE_CACHE_MTIME, now,
          constructed, tracker, ctor_env, last, response, ask_exc,
          lastLoad, source, built, pc, loc, parse_count, scope>>

threadVars == <<pc, loc, parse_count>>

ghostVars == <<lastLoad, source, built, threadVars, scope>>

httpVars == <<response, ask_exc>>

trackerVars == <<constructed, tracker, ctor_env, last>>

loaderVars == <<registry, _PRICE_CACHE, _PRICE_CACHE_MTIME, now>>

\* registry files the runs start from
RecordG ==
  JObj(("model" :> JStr(GPT4O)) @@ ("input_per_1k_usd" :> JNum(5))
       @@ ("output_per_1k_usd" :> JNum(15)) @@ ("aliases" :> JList(<<JStr(<<"x">>)>>)))
Registries ==
  { [exists |-> FALSE, mtime |-> 0, json |-> [ok |-> FALSE, blob |-> JNull]],
    [exists |-> TRUE, mtime |-> 900, json |-> [ok |-> TRUE, blob |-> JList(<<RecordG>>)]] }

\* environments the process starts in
PriceStrictValues == {<<"0">>, <<"1">>}
Environs ==
  {<<>>} \cup {(<<"PRICE_STRICT">> :> v) : v \in PriceStrictValues}

NoCall ==
  [op |-> "none", model |-> <<>>, prompt_tokens |-> 0, completion_tokens |-> 0,
   usd |-> 0, known |-> FALSE, pre_total |-> 0, raised |-> "none",
   exc |-> None, ret |-> None, near |-> FALSE,
   prev_raised |-> "none", prev_total |-> 0]

\* threads that may call the loader at the same time
NumThreads == 2
Threads == 1 .. NumThreads

\* no loader call observed yet
NoPrev ==
  [fn |-> "none", raised |-> "none", table |-> <<>>, clock |-> 0,
   reg |-> [exists |-> FALSE, mtime |-> 0, json |-> [ok |-> FALSE, blob |-> JNull]]]
NoLoad ==
  [fn |-> "none", raised |-> "none", table |-> <<>>, stat |-> FALSE, read |-> FALSE,
   pre_cache |-> None, pre_mtime |-> None, clock |-> 0, reg |-> NoPrev.reg,
   env |-> <<>>, order |-> <<>>, prev |-> NoPrev]

\* cost_guard scopes that may be open at the same time
NumScopes == 2
Scopes == 1 .. NumScopes

\* a scope that has not been entered
NoScope ==
  [pc |-> "outside",
   tracker |-> [budget |-> Budget(0, 800, <<"strict">>), price_table |-> <<>>,
                total_usd |-> 0],
   inflight |-> "none", exc |-> None, teardowns |-> 0,
   propagated |-> "none", propagated_exc |-> None]

InitScopes == scope = [s \in Scopes |-> NoScope]

\* locals of a thread that is not inside the loader
NoLocals == [now |-> 0, mtime |-> 0, table |-> <<>>, ret |-> None, raised |-> "none"]

InitThreads ==
  /\ pc = [t \in Threads |-> "idle"]
  /\ loc = [t \in Threads |-> NoLocals]
  /\ parse_count = <<>>

\* the program after import, in an environment drawn from envs
InitFrom(envs) ==
  /\ environ \in envs
  /\ PRICE_STRICT = (EnvGet(environ, <<"PRICE_STRICT">>, <<"0">>) = <<"1">>)
  /\ registry \in Registries
  /\ _PRICE_CACHE = None
  /\ _PRICE_CACHE_MTIME = None
  /\ now = 1000
  /\ constructed = FALSE
  /\ tracker = [budget |-> Budget(0, 800, <<"strict">>), price_table |-> <<>>,
                total_usd |-> 0]
  /\ ctor_env = None
  /\ last = NoCall
  /\ response = None
  /\ ask_exc = None

InitProgram == InitFrom(Environs)

Init ==
  /\ InitProgram
  /\ lastLoad = NoLoad
  /\ source = JNull
  /\ built = None
  /\ InitThreads
  /\ InitScopes

(***************************************************************************)
(* Actions                                                                 *)
(***************************************************************************)
\* monkeypatch.setenv / os.environ[name] = value
SetEnv(name, value) ==
  /\ environ' = (name :> value) @@ environ
  /\ environ' # environ
  /\ UNCHANGED <<PRICE_STRICT, loaderVars, trackerVars, httpVars, ghostVars>>

\* monkeypatch.delenv / del os.environ[name]
DelEnv(name) ==
  /\ name \in DOMAIN environ
  /\ environ' = [k \in DOMAIN environ \ {name} |-> environ[k]]
  /\ UNCHANGED <<PRICE_STRICT, loaderVars, trackerVars, httpVars, ghostVars>>

\* CostTracker(budget, price_table): a falsy price_table (None or {}) is
\* replaced by load_price_table_auto()
ConstructCore(budget, price_table) ==
  LET auto == load_price_table_auto(environ, registry, _PRICE_CACHE,
                                    _PRICE_CACHE_MTIME, now)
  IN IF price_table # <<>>
       THEN /\ tracker' = [budget |-> budget, price_table |-> price_table,
                           total_usd |-> 0]
            /\ constructed' = TRUE
            /\ ctor_env' = EnvLookup(environ, <<"PRICE_STRICT">>)
            /\ last' = NoCall
            /\ UNCHANGED <<environ, PRICE_STRICT, loaderVars, httpVars, source, built, scope,
                           threadVars>>
       ELSE /\ _PRICE_CACHE' = auto.cache
            /\ _PRICE_CACHE_MTIME' = auto.cache_mtime
            /\ IF auto.raised = "none"
                 THEN /\ tracker' = [budget |-> budget, price_table |-> auto.table,
                                     total_usd |-> 0]
                      /\ constructed' = TRUE
                      /\ ctor_env' = EnvLookup(environ, <<"PRICE_STRICT">>)
                      /\ last' = NoCall
                 ELSE UNCHANGED <<tracker, constructed, ctor_env, last>>
            /\ UNCHANGED <<environ, PRICE_STRICT, registry, now, httpVars, source, built, scope,
                           threadVars>>

Construct(budget, price_table) ==
  ConstructCore(budget, price_table) /\ UNCHANGED lastLoad

Within(total) == (0 - MaxAmount) <= total /\ total <= MaxTotal

AddUsage(model, prompt_tokens, completion_tokens) ==
  LET r == add_usage(tracker, PRICE_STRICT, model, prompt_tokens, completion_tokens)
      key == lower(StrOr(model, <<>>))
  IN /\ constructed
     /\ Within(r.total_usd)
     /\ tracker' = [tracker EXCEPT !.total_usd = r.total_usd]
     /\ last' = [op |-> "add_usage", model |-> model, prompt_tokens |-> prompt_tokens,
                 completion_tokens |-> completion_tokens, usd |-> 0,
                 known |-> key \in DOMAIN tracker.price_table,
                 pre_total |-> tracker.total_usd, raised |-> r.raised,
                 exc |-> r.exc, ret |-> r.ret, near |-> FALSE,
                 prev_raised |-> "none", prev_total |-> 0]
     /\ UNCHANGED <<environ, PRICE_STRICT, loaderVars, constructed, ctor_env, httpVars, ghostVars>>

AddCostDollars(usd) ==
  LET r == add_cost_dollars(tracker, usd, <<>>)
  IN /\ constructed
     /\ Within(r.total_usd)
     /\ tracker' = [tracker EXCEPT !.total_usd = r.total_usd]
     /\ last' = [op |-> "add_cost_dollars", model |-> <<>>, prompt_tokens |-> 0,
                 completion_tokens |-> 0, usd |-> usd, known |-> FALSE,
                 pre_total |-> tracker.total_usd, raised |-> r.raised,
                 exc |-> r.exc, ret |-> r.ret, near |-> FALSE,
                 prev_raised |-> "none", prev_total |-> 0]
     /\ UNCHANGED <<environ, PRICE_STRICT, loaderVars, constructed, ctor_env, httpVars, ghostVars>>

NearThreshold ==
  /\ constructed
  /\ last' = [NoCall EXCEPT !.op = "near_threshold", !.pre_total = tracker.total_usd,
                            !.near = near_threshold(tracker)]
  /\ UNCHANGED <<environ, PRICE_STRICT, loaderVars, constructed, tracker, ctor_env,
                 httpVars, ghostVars>>

\* one POST /ask request, start to finish
Ask ==
  LET g == cost_guard(load_budget_from_env(environ),
                      load_price_table_from_env(environ),
                      load_price_table_auto(environ, registry, _PRICE_CACHE,
                                            _PRICE_CACHE_MTIME, now),
                      _PRICE_CACHE, _PRICE_CACHE_MTIME)
      a == ask(g, PRICE_STRICT)
  IN /\ response' = Some(a.response)
     /\ ask_exc' = a.exc
     /\ _PRICE_CACHE' = a.cache
     /\ _PRICE_CACHE_MTIME' = a.cache_mtime
     /\ UNCHANGED <<environ, PRICE_STRICT, registry, now, trackerVars, ghostVars>>

Next ==
  \/ \E b \in Budgets, t \in Tables : Construct(b, t)
  \/ \E m \in ModelArgs, p \in TokenCounts, c \in TokenCounts : AddUsage(m, p, c)
  \/ \E usd \in Amounts : AddCostDollars(usd)
  \/ NearThreshold

Spec == Init /\ [][Next]_vars

\* the same tracker under an environment that changes between calls
NextEnv ==
  \/ \E v \in PriceStrictValues : SetEnv(<<"PRICE_STRICT">>, v)
  \/ DelEnv(<<"PRICE_STRICT">>)
  \/ \E t \in Tables : Construct(Budget(6, 800, <<"strict">>), t)
  \/ \E m \in ModelArgs, p \in TokenCounts : AddUsage(m, p, 0)

SpecEnv == Init /\ [][NextEnv]_vars

\* the tracker behind the HTTP route, configured through the environment
CapValues == {<<"0.006">>, <<"0.02">>}
EnforceValues == {<<"soft">>, <<"STRICT">>}
NextHttp ==
  \/ \E v \in CapValues : SetEnv(<<"COST_CAP_USD">>, v)
  \/ \E v \in EnforceValues : SetEnv(<<"COST_ENFORCE">>, v)
  \/ SetEnv(<<"PRICE__">> \o GPT4O \o <<"__INPUT">>, <<"0.005">>)
  \/ SetEnv(<<"PRICE__">> \o GPT4O \o <<"__OUTPUT">>, <<"0.015">>)
  \/ Ask
  \/ Construct(Budget(6, 800, <<"strict">>), TableG)
  \/ \E p \in TokenCounts : AddUsage(gpt4o, p, 0)
  \/ \E usd \in Amounts : AddCostDollars(usd)

InitHttp == Init /\ environ = <<>>

SpecHttp == InitHttp /\ [][NextHttp]_vars

\* what a loader call leaves for the next one to compare with
Summary(l) ==
  [fn |-> l.fn, raised |-> l.raised, table |-> l.table, stat |-> l.stat,
   read |-> l.read, pre_cache |-> l.pre_cache, pre_mtime |-> l.pre_mtime,
   clock |-> l.clock, reg |-> l.reg]

\* the record of a loader call fn with outcome r, made in the current state
Observed(fn, r) ==
  [fn |-> fn, raised |-> r.raised, table |-> r.table, stat |-> r.stat,
   read |-> r.read, pre_cache |-> _PRICE_CACHE, pre_mtime |-> _PRICE_CACHE_MTIME,
   clock |-> now, reg |-> registry, env |-> environ, order |-> <<>>,
   prev |-> Summary(lastLoad)]

\* one call of load_price_table_from_json() on the default path
LoadJson ==
  LET r == load_price_table_from_json(registry, _PRICE_CACHE, _PRICE_CACHE_MTIME, now)
  IN /\ _PRICE_CACHE' = r.cache
     /\ _PRICE_CACHE_MTIME' = r.cache_mtime
     /\ lastLoad' = Observed("json", r)
     /\ UNCHANGED <<environ, PRICE_STRICT, registry, now, trackerVars, httpVars,
                    source, built, threadVars, scope>>

\* what the registry file may be rewritten to: two price lists and a file
\* that is not JSON
RecordG2 ==
  JObj(("model" :> JStr(GPT4O)) @@ ("input_per_1k_usd" :> JNum(6))
       @@ ("output_per_1k_usd" :> JNum(18)))
FileContents ==
  { [ok |-> TRUE, blob |-> JList(<<RecordG>>)],
    [ok |-> TRUE, blob |-> JList(<<RecordG2>>)],
    [ok |-> FALSE, blob |-> JNull] }

\* the registry file is written (created or replaced) at the current time
EditFile(content) ==
  /\ ~registry.exists \/ (registry.mtime # now /\ registry.json # content)
  /\ registry' = [exists |-> TRUE, mtime |-> now, json |-> content]
  /\ UNCHANGED <<environ, PRICE_STRICT, _PRICE_CACHE, _PRICE_CACHE_MTIME, now,
                 trackerVars, httpVars, ghostVars>>

\* the registry file is removed
DeleteFile ==
  /\ registry.exists
  /\ registry' = [exists |-> FALSE, mtime |-> 0, json |-> [ok |-> FALSE, blob |-> JNull]]
  /\ UNCHANGED <<environ, PRICE_STRICT, _PRICE_CACHE, _PRICE_CACHE_MTIME, now,
                 trackerVars, httpVars, ghostVars>>

\* time passes
MaxTicks == 4
Tick ==
  /\ now < 1000 + 100 * MaxTicks
  /\ now' = now + 100
  /\ UNCHANGED <<environ, PRICE_STRICT, registry, _PRICE_CACHE, _PRICE_CACHE_MTIME,
                 trackerVars, httpVars, ghostVars>>

\* the JSON loader called again and again while the file and the clock change
NextLoader ==
  \/ LoadJson
  \/ \E content \in FileContents : EditFile(content)
  \/ DeleteFile
  \/ Tick

InitLoader == Init /\ environ = <<>>

SpecLoader == InitLoader /\ [][NextLoader]_vars

(***************************************************************************)
(* load_price_table_from_json statement by statement, for callers that run *)
(* in different threads (get_tracker is a sync dependency, so FastAPI runs *)
(* it in its thread pool).  Every read or write of a module global and     *)
(* every access to the file is one step.                                   *)
(***************************************************************************)
threadRest ==
  <<environ, PRICE_STRICT, trackerVars, httpVars, lastLoad, source, built, scope>>

\* thread t moves to position p with locals l
Goto(t, p, l) ==
  /\ pc' = [pc EXCEPT ![t] = p]
  /\ loc' = [loc EXCEPT ![t] = l]

\* thread t enters load_price_table_from_json
Call(t) ==
  /\ pc[t] \in {"idle", "done"}
  /\ Goto(t, "exists", NoLocals)
  /\ UNCHANGED <<loaderVars, parse_count, threadRest>>

\* lines 84-85: if not path.exists(): raise FileNotFoundError
StepExists(t) ==
  /\ pc[t] = "exists"
  /\ IF registry.exists
       THEN Goto(t, "time", loc[t])
       ELSE Goto(t, "done", [loc[t] EXCEPT !.raised = "FileNotFoundError"])
  /\ UNCHANGED <<loaderVars, parse_count, threadRest>>

\* line 88: now = time.time()
StepTime(t) ==
  /\ pc[t] = "time"
  /\ Goto(t, "ttl_cache", [loc[t] EXCEPT !.now = now])
  /\ UNCHANGED <<loaderVars, parse_count, threadRest>>

\* line 89, left operand: _PRICE_CACHE is not None
StepTtlCache(t) ==
  /\ pc[t] = "ttl_cache"
  /\ Goto(t, IF _PRICE_CACHE # None THEN "ttl_mtime" ELSE "stat", loc[t])
  /\ UNCHANGED <<loaderVars, parse_count, threadRest>>

\* line 89, right operand: _PRICE_CACHE_MTIME is not None
StepTtlMtime(t) ==
  /\ pc[t] = "ttl_mtime"
  /\ Goto(t, IF _PRICE_CACHE_MTIME # None THEN "ttl_cmp" ELSE "stat", loc[t])
  /\ UNCHANGED <<loaderVars, parse_count, threadRest>>

\* line 90: (now - _PRICE_CACHE_MTIME) < _PRICE_CACHE_TTL_SECS
StepTtlCmp(t) ==
  /\ pc[t] = "ttl_cmp"
  /\ Goto(t, IF (loc[t].now - _PRICE_CACHE_MTIME[1]) < _PRICE_CACHE_TTL_SECS
               THEN "ttl_ret" ELSE "stat", loc[t])
  /\ UNCHANGED <<loaderVars, parse_count, threadRest>>

\* lines 91 and 96: return _PRICE_CACHE
StepReturnCache(t) ==
  /\ pc[t] \in {"ttl_ret", "mt_ret"}
  /\ Goto(t, "done", [loc[t] EXCEPT !.ret = _PRICE_CACHE])
  /\ UNCHANGED <<loaderVars, parse_count, threadRest>>

\* line 94: mtime = path.stat().st_mtime
StepStat(t) ==
  /\ pc[t] = "stat"
  /\ IF registry.exists
       THEN Goto(t, "mt_cache", [loc[t] EXCEPT !.mtime = registry.mtime])
       ELSE Goto(t, "done", [loc[t] EXCEPT !.raised = "FileNotFoundError"])
  /\ UNCHANGED <<loaderVars, parse_count, threadRest>>

\* line 95, left operand: _PRICE_CACHE is not None
StepMtCache(t) ==
  /\ pc[t] = "mt_cache"
  /\ Goto(t, IF _PRICE_CACHE # None THEN "mt_cmp" ELSE "open", loc[t])
  /\ UNCHANGED <<loaderVars, parse_count, threadRest>>

\* line 95, right operand: _PRICE_CACHE_MTIME == mtime
StepMtCmp(t) ==
  /\ pc[t] = "mt_cmp"
  /\ Goto(t, IF _PRICE_CACHE_MTIME = Some(loc[t].mtime) THEN "mt_ret" ELSE "open", loc[t])
  /\ UNCHANGED <<loaderVars, parse_count, threadRest>>

\* lines 99-102: open the file, json.load, _build_table
StepParse(t) ==
  LET b == _build_table(_iter_records(registry.json.blob))
      n == IF registry.mtime \in DOMAIN parse_count THEN parse_count[registry.mtime] ELSE 0
  IN /\ pc[t] = "open"
     /\ IF ~registry.exists
          THEN Goto(t, "done", [loc[t] EXCEPT !.raised = "FileNotFoundError"])
               /\ UNCHANGED parse_count
          ELSE IF ~registry.json.ok
          THEN Goto(t, "done", [loc[t] EXCEPT !.raised = "JSONDecodeError"])
               /\ UNCHANGED parse_count
          ELSE /\ parse_count' = (registry.mtime :> (n + 1)) @@ parse_count
               /\ IF b.raised
                    THEN Goto(t, "done", [loc[t] EXCEPT !.raised = "AttributeError"])
                    ELSE Goto(t, "store_cache", [loc[t] EXCEPT !.table = b.table])
     /\ UNCHANGED <<loaderVars, threadRest>>

\* line 105: _PRICE_CACHE = table
StepStoreCache(t) ==
  /\ pc[t] = "store_cache"
  /\ _PRICE_CACHE' = Some(loc[t].table)
  /\ Goto(t, "store_mtime", loc[t])
  /\ UNCHANGED <<registry, _PRICE_CACHE_MTIME, now, parse_count, threadRest>>

\* lines 106-107: _PRICE_CACHE_MTIME = mtime; return table
StepStoreMtime(t) ==
  /\ pc[t] = "store_mtime"
  /\ _PRICE_CACHE_MTIME' = Some(loc[t].mtime)
  /\ Goto(t, "done", [loc[t] EXCEPT !.ret = Some(loc[t].table)])
  /\ UNCHANGED <<registry, _PRICE_CACHE, now, parse_count, threadRest>>

\* callers in several threads, interleaved statement by statement
NextThreads ==
  \/ \E t \in Threads : Call(t)
  \/ \E t \in Threads : StepExists(t)
  \/ \E t \in Threads : StepTime(t)
  \/ \E t \in Threads : StepTtlCache(t)
  \/ \E t \in Threads : StepTtlMtime(t)
  \/ \E t \in Threads : StepTtlCmp(t)
  \/ \E t \in Threads : StepReturnCache(t)
  \/ \E t \in Threads : StepStat(t)
  \/ \E t \in Threads : StepMtCache(t)
  \/ \E t \in Threads : StepMtCmp(t)
  \/ \E t \in Threads : StepParse(t)
  \/ \E t \in Threads : StepStoreCache(t)
  \/ \E t \in Threads : StepStoreMtime(t)
  \/ Tick

SpecThreads == InitLoader /\ [][NextThreads]_vars

(***************************************************************************)
(* _build_table on parsed documents                                        *)
(***************************************************************************)
\* records a registry document may hold
Priced(fields, in_price, out_price) ==
  JObj(fields @@ ("input_per_1k_usd" :> in_price) @@ ("output_per_1k_usd" :> out_price))
RecModelX == Priced(("model" :> JStr(<<"x">>)), JNum(6), JNum(18))
RecInactive ==
  Priced(("model" :> JStr(gpt4o)) @@ ("active" :> JBool(FALSE)), JNum(1), JNum(1))
RecNoModel == Priced(("provider" :> JStr(<<"o">>)), JNum(5), JNum(15))
RecBlankModel == Priced(("model" :> JStr(<<" ">>)), JNum(5), JNum(15))
RecNumberModel == Priced(("model" :> JNum(7)), JNum(5), JNum(15))
RecBadPrice == Priced(("model" :> JStr(<<"x">>)), JStr(<<"a", "b", "c">>), JNum(15))
RecNoOutput == JObj(("model" :> JStr(gpt4o)) @@ ("input_per_1k_usd" :> JNum(5)))
RecAliases ==
  Priced(("model" :> JStr(ghost))
         @@ ("aliases" :> JList(<<JStr(<<" ", "X">>), JStr(<<>>), JNum(5)>>)),
         JStr(<<"0.005">>), JBool(TRUE))
RecordPool ==
  <<RecordG, RecModelX, RecInactive, RecNoModel, RecBlankModel, RecNumberModel,
    RecBadPrice, RecNoOutput, RecAliases>>

\* documents: lists of at most MaxRecords records, given by their places
\* in the pool
MaxRecords == 2
Picks == UNION {[1..n -> DOMAIN RecordPool] : n \in 0..MaxRecords}
ListOf(picks) == JList([i \in DOMAIN picks |-> RecordPool[picks[i]]])

\* table = _build_table(_iter_records(data)) on the document at hand
Build ==
  /\ built = None
  /\ built' = Some(_build_table(_iter_records(source)))
  /\ UNCHANGED <<environ, PRICE_STRICT, loaderVars, trackerVars, httpVars, lastLoad,
                 source, threadVars, scope>>

NextBuild == Build

InitBuild ==
  /\ InitProgram
  /\ environ = <<>>
  /\ ~registry.exists
  /\ lastLoad = NoLoad
  /\ \E picks \in Picks : source = ListOf(picks)
  /\ built = None
  /\ InitThreads
  /\ InitScopes

SpecBuild == InitBuild /\ [][NextBuild]_vars

(***************************************************************************)
(* The callers of the loaders: load_price_table_auto, CostTracker without  *)
(* a table, cost_guard                                                     *)
(***************************************************************************)
\* the record of a call of one of the loader's callers: what came before
\* it is not kept
ObservedCaller(fn, r) == [Observed(fn, r) EXCEPT !.prev = NoPrev]

\* one call of load_price_table_auto()
LoadAuto ==
  LET r == load_price_table_auto(environ, registry, _PRICE_CACHE, _PRICE_CACHE_MTIME, now)
  IN /\ _PRICE_CACHE' = r.cache
     /\ _PRICE_CACHE_MTIME' = r.cache_mtime
     /\ lastLoad' = ObservedCaller("auto", r)
     /\ UNCHANGED <<environ, PRICE_STRICT, registry, now, trackerVars, httpVars,
                    source, built, threadVars, scope>>

\* CostTracker(budget) without a price table
ConstructNoTable(budget) ==
  /\ ConstructCore(budget, EmptyTable)
  /\ lastLoad' = ObservedCaller("ctor",
                               load_price_table_auto(environ, registry, _PRICE_CACHE,
                                                     _PRICE_CACHE_MTIME, now))

\* entry into cost_guard(): the tracker of one request is built
EnterGuard ==
  LET auto == load_price_table_auto(environ, registry, _PRICE_CACHE,
                                    _PRICE_CACHE_MTIME, now)
      g == cost_guard(load_budget_from_env(environ), load_price_table_from_env(environ),
                      auto, _PRICE_CACHE, _PRICE_CACHE_MTIME)
  IN /\ _PRICE_CACHE' = g.cache
     /\ _PRICE_CACHE_MTIME' = g.cache_mtime
     /\ lastLoad' = ObservedCaller("guard",
                                   [raised |-> IF g.raised THEN "ValueError" ELSE "none",
                                    table |-> g.tracker.price_table,
                                    stat |-> FALSE, read |-> FALSE])
     /\ UNCHANGED <<environ, PRICE_STRICT, registry, now, trackerVars, httpVars,
                    source, built, threadVars, scope>>

\* values of the PRICE__ variables: a number and one that is not
PriceValues == {<<"0.005">>, <<"abc">>}
PriceInputKey == <<"PRICE__">> \o GPT4O \o <<"__INPUT">>
PriceOutputKey == <<"PRICE__">> \o GPT4O \o <<"__OUTPUT">>

NextAuto ==
  \/ \E v \in PriceValues : SetEnv(PriceInputKey, v)
  \/ \E v \in PriceValues : SetEnv(PriceOutputKey, v)
  \/ DelEnv(PriceInputKey)
  \/ \E content \in FileContents : EditFile(content)
  \/ DeleteFile
  \/ LoadAuto
  \/ ConstructNoTable(Budget(6, 800, <<"strict">>))
  \/ EnterGuard

SpecAuto == InitLoader /\ [][NextAuto]_vars

(***************************************************************************)
(* load_price_table_from_env on environments of PRICE__ variables          *)
(***************************************************************************)
\* a second INPUT key that names the same model in lower case, and the
\* OUTPUT key of a model that has no INPUT key
PriceInputKeyLower == <<"PRICE__">> \o gpt4o \o <<"__INPUT">>
PriceOutputKeyX == <<"PRICE__">> \o <<"X">> \o <<"__OUTPUT">>
InputValues == {<<"0.005">>, <<"0.006">>}
OutputValues == {<<"0.015">>, <<>>, <<"abc">>}

\* environments that hold any of the four keys
PriceEnvirons ==
  {env \in UNION {[ks -> InputValues \cup OutputValues] :
                    ks \in SUBSET {PriceInputKey, PriceInputKeyLower,
                                   PriceOutputKey, PriceOutputKeyX}} :
     \A k \in DOMAIN env :
       IF endswith(k, "__INPUT") THEN env[k] \in InputValues
                                 ELSE env[k] \in OutputValues}

\* one call of load_price_table_from_env()
LoadEnv ==
  \E order \in Orders(environ) :
    /\ lastLoad' =
         [ObservedCaller("env",
                         [raised |-> IF load_price_table_from_env_in(environ, order).raised
                                       THEN "ValueError" ELSE "none",
                          table |-> load_price_table_from_env_in(environ, order).table,
                          stat |-> FALSE, read |-> FALSE])
            EXCEPT !.order = order]
    /\ UNCHANGED <<environ, PRICE_STRICT, loaderVars, trackerVars, httpVars,
                   source, built, threadVars, scope>>

NextEnvTable == LoadEnv

InitEnvTable ==
  /\ InitFrom(PriceEnvirons)
  /\ ~registry.exists
  /\ lastLoad = NoLoad
  /\ source = JNull
  /\ built = None
  /\ InitThreads
  /\ InitScopes

SpecEnvTable == InitEnvTable /\ [][NextEnvTable]_vars

\* callers in several threads while the registry file is rewritten
NextRace ==
  \/ \E t \in Threads : Call(t)
  \/ \E t \in Threads : StepExists(t)
  \/ \E t \in Threads : StepTime(t)
  \/ \E t \in Threads : StepTtlCache(t)
  \/ \E t \in Threads : StepTtlMtime(t)
  \/ \E t \in Threads : StepTtlCmp(t)
  \/ \E t \in Threads : StepReturnCache(t)
  \/ \E t \in Threads : StepStat(t)
  \/ \E t \in Threads : StepMtCache(t)
  \/ \E t \in Threads : StepMtCmp(t)
  \/ \E t \in Threads : StepParse(t)
  \/ \E t \in Threads : StepStoreCache(t)
  \/ \E t \in Threads : StepStoreMtime(t)
  \/ \E content \in FileContents : EditFile(content)

SpecRace == InitLoader /\ [][NextRace]_vars

\* ---- the loader called for two paths ----

\* a second registry file, at another path than the default one
OtherRegistry ==
  [exists |-> TRUE, mtime |-> 950, json |-> [ok |-> TRUE, blob |-> JList(<<RecModelX>>)]]

\* one call of load_price_table_from_json(path) for the file at path
LoadJsonAt(file) ==
  LET r == load_price_table_from_json(file, _PRICE_CACHE, _PRICE_CACHE_MTIME, now)
  IN /\ _PRICE_CACHE' = r.cache
     /\ _PRICE_CACHE_MTIME' = r.cache_mtime
     /\ lastLoad' = [Observed("json_at", r) EXCEPT !.reg = file]
     /\ UNCHANGED <<environ, PRICE_STRICT, registry, now, trackerVars, httpVars,
                    source, built, threadVars, scope>>

NextPaths ==
  \/ LoadJsonAt(registry)
  \/ LoadJsonAt(OtherRegistry)
  \/ \E content \in FileContents : EditFile(content)
  \/ Tick

SpecPaths == InitLoader /\ [][NextPaths]_vars

\* ---- charges that follow one another on one tracker ----

\* add_usage, observed together with the outcome of the call before it
AddUsageNext(model, prompt_tokens, completion_tokens) ==
  LET r == add_usage(tracker, PRICE_STRICT, model, prompt_tokens, completion_tokens)
      key == lower(StrOr(model, <<>>))
  IN /\ constructed
     /\ Within(r.total_usd)
     /\ tracker' = [tracker EXCEPT !.total_usd = r.total_usd]
     /\ last' = [op |-> "add_usage", model |-> model, prompt_tokens |-> prompt_tokens,
                 completion_tokens |-> completion_tokens, usd |-> 0,
                 known |-> key \in DOMAIN tracker.price_table,
                 pre_total |-> tracker.total_usd, raised |-> r.raised,
                 exc |-> r.exc, ret |-> r.ret, near |-> FALSE,
                 prev_raised |-> last.raised, prev_total |-> last.pre_total]
     /\ UNCHANGED <<environ, PRICE_STRICT, loaderVars, constructed, ctor_env, httpVars, ghostVars>>

\* add_cost_dollars, observed in the same way
AddCostDollarsNext(usd) ==
  LET r == add_cost_dollars(tracker, usd, <<>>)
  IN /\ constructed
     /\ Within(r.total_usd)
     /\ tracker' = [tracker EXCEPT !.total_usd = r.total_usd]
     /\ last' = [op |-> "add_cost_dollars", model |-> <<>>, prompt_tokens |-> 0,
                 completion_tokens |-> 0, usd |-> usd, known |-> FALSE,
                 pre_total |-> tracker.total_usd, raised |-> r.raised,
                 exc |-> r.exc, ret |-> r.ret, near |-> FALSE,
                 prev_raised |-> last.raised, prev_total |-> last.pre_total]
     /\ UNCHANGED <<environ, PRICE_STRICT, loaderVars, constructed, ctor_env, httpVars, ghostVars>>

NextRetry ==
  \/ \E c \in {6, 10}, m \in EnforceModes : Construct(Budget(c, 800, m), TableG)
  \/ \E m \in ModelArgs, p \in TokenCounts, c \in TokenCounts : AddUsageNext(m, p, c)
  \/ \E usd \in Amounts : AddCostDollarsNext(usd)

SpecRetry == Init /\ [][NextRetry]_vars

\* ---- trackers constructed with an explicit price table ----

\* CostTracker(budget, price_table), observed with the table that was passed
ConstructExplicit(budget, price_table) ==
  LET auto == load_price_table_auto(environ, registry, _PRICE_CACHE,
                                    _PRICE_CACHE_MTIME, now)
  IN /\ ConstructCore(budget, price_table)
     /\ lastLoad' = ObservedCaller("explicit",
                                   [raised |-> IF price_table # <<>> THEN "none"
                                               ELSE auto.raised,
                                    table |-> price_table,
                                    stat |-> FALSE, read |-> FALSE])

NextExplicit ==
  \/ \E c \in {0, 6}, t \in {EmptyTable, TableG, TableUpper} :
        ConstructExplicit(Budget(c, 800, <<"strict">>), t)
  \/ \E m \in ModelArgs, p \in TokenCounts, c \in TokenCounts : AddUsage(m, p, c)

SpecExplicit == Init /\ [][NextExplicit]_vars

\* ---- budgets built directly and from the environment ----

\* spellings of the enforcement mode: exact, other letter case, misspelt, soft
StrictSpellings == {<<"strict">>, <<"Strict">>, <<"STRICT">>}
ModeSpellings == StrictSpellings \cup {<<"strcit">>, <<"soft">>, <<"SOFT">>}

\* Budget(cap_usd, enforce_mode=mode) handed to a tracker as it is
ConstructDirect(cap, mode) ==
  /\ ConstructCore(Budget(cap, 800, mode), TableG)
  /\ lastLoad' = ObservedCaller("budget_direct",
                               [raised |-> "none", table |-> TableG,
                                stat |-> FALSE, read |-> FALSE])

\* CostTracker(load_budget_from_env(), table)
ConstructFromEnv ==
  LET b == load_budget_from_env(environ)
  IN /\ ~b.raised
     /\ ConstructCore(b.budget, TableG)
     /\ lastLoad' = ObservedCaller("budget_env",
                                  [raised |-> "none", table |-> TableG,
                                   stat |-> FALSE, read |-> FALSE])

ModeEnvirons ==
  {(<<"COST_CAP_USD">> :> <<"0.006">>)}
    \cup {(<<"COST_CAP_USD">> :> <<"0.006">>) @@ (<<"COST_ENFORCE">> :> v) :
            v \in ModeSpellings}

NextModes ==
  \/ \E c \in {0, 6}, mode \in ModeSpellings : ConstructDirect(c, mode)
  \/ ConstructFromEnv
  \/ \E m \in ModelArgs, p \in TokenCounts, c \in TokenCounts : AddUsage(m, p, c)

InitModes ==
  /\ InitFrom(ModeEnvirons)
  /\ lastLoad = NoLoad
  /\ source = JNull
  /\ built = None
  /\ InitThreads
  /\ InitScopes

SpecModes == InitModes /\ [][NextModes]_vars

\* ---- loader calls that fail ----

\* what the registry file is rewritten to: two price lists, a file that is
\* not JSON, and a record that makes _build_table raise (its model is a number)
FailingFiles ==
  << [ok |-> TRUE, blob |-> JList(<<RecordG>>)],
     [ok |-> TRUE, blob |-> JList(<<RecordG2>>)],
     [ok |-> FALSE, blob |-> JNull],
     [ok |-> TRUE, blob |-> JList(<<RecNumberModel>>)] >>

\* the registry file is written with the i-th content at the current time
WriteFile(i) ==
  /\ ~registry.exists \/ registry.mtime # now
  /\ registry' = [exists |-> TRUE, mtime |-> now, json |-> FailingFiles[i]]
  /\ UNCHANGED <<environ, PRICE_STRICT, _PRICE_CACHE, _PRICE_CACHE_MTIME, now,
                 trackerVars, httpVars, ghostVars>>

NextFailing ==
  \/ LoadJson
  \/ \E i \in DOMAIN FailingFiles : WriteFile(i)
  \/ DeleteFile
  \/ Tick

SpecFailing == InitLoader /\ [][NextFailing]_vars

\* ---- the builder on map-form sources ----

\* keys of a map-form source: one colon, two colons, upper case and blanks
\* after the colon, nothing after the colon, no colon
KeyPool ==
  << <<"o", ":", "x">>, <<"o", ":", "x", ":", "y">>, <<"o", ":", " ", "X">>,
     <<"o", ":">>, <<"x">> >>

\* entry bodies: prices only, its own model field, inactive, a price that is
\* no number, and a value that is no object
BodyPool ==
  << JObj(("input_per_1k_usd" :> JNum(5)) @@ ("output_per_1k_usd" :> JNum(15))),
     Priced(("model" :> JStr(ghost)), JNum(6), JNum(18)),
     Priced(("active" :> JBool(FALSE)), JNum(1), JNum(1)),
     JObj(("input_per_1k_usd" :> JStr(<<"abc">>)) @@ ("output_per_1k_usd" :> JNum(15))),
     JNum(7) >>

\* the keys of one JSON object are distinct
KeyPicks ==
  {ks \in UNION {[1..n -> DOMAIN KeyPool] : n \in 0..MaxRecords} :
     \A i \in DOMAIN ks, j \in DOMAIN ks : ks[i] = ks[j] => i = j}

MapOf(ks, bs) == JMap([i \in DOMAIN ks |-> <<KeyPool[ks[i]], BodyPool[bs[i]]>>])

InitMap ==
  /\ InitProgram
  /\ environ = <<>>
  /\ ~registry.exists
  /\ lastLoad = NoLoad
  /\ \E ks \in KeyPicks : \E bs \in [DOMAIN ks -> DOMAIN BodyPool] : source = MapOf(ks, bs)
  /\ built = None
  /\ InitThreads
  /\ InitScopes

NextMap == Build

SpecMap == InitMap /\ [][NextMap]_vars

\* ---- cost_guard scopes: `with cost_guard() as tracker: <body>` ----

scopeRest == <<environ, PRICE_STRICT, registry, now, trackerVars, httpVars, lastLoad,
               source, built, threadVars>>

\* the finally block of cost_guard, entered when the body has ended or raised:
\* it runs once and what the body raised, if anything, goes on to the caller
finally_block_swallows(sc) ==
  [sc EXCEPT !.pc = "exited", !.teardowns = @ + 1]
finally_block(sc) ==
  [sc EXCEPT !.pc = "exited", !.teardowns = @ + 1,
             !.propagated = sc.inflight, !.propagated_exc = sc.exc]

\* the commit of a charge: total_usd of the tracker the charge went through
charge_scope_shared(scopes, s, total) ==
  [x \in Scopes |-> [scopes[x] EXCEPT !.tracker.total_usd = total]]
charge_scope(scopes, s, total) ==
  [scopes EXCEPT ![s].tracker.total_usd = total]

\* `with cost_guard() as tracker`: the tracker is built, then the body starts;
\* when the constructor raises there is neither body nor finally block
GuardEnter(s) ==
  LET auto == load_price_table_auto(environ, registry, _PRICE_CACHE,
                                    _PRICE_CACHE_MTIME, now)
      g == cost_guard(load_budget_from_env(environ), load_price_table_from_env(environ),
                      auto, _PRICE_CACHE, _PRICE_CACHE_MTIME)
  IN /\ scope[s].pc \in {"outside", "exited", "failed"}
     /\ scope' = [scope EXCEPT ![s] =
                    IF g.raised THEN [NoScope EXCEPT !.pc = "failed"]
                    ELSE [NoScope EXCEPT !.pc = "body", !.tracker = g.tracker]]
     /\ _PRICE_CACHE' = g.cache
     /\ _PRICE_CACHE_MTIME' = g.cache_mtime
     /\ UNCHANGED scopeRest

\* the body charges its tracker; a charge that raises ends the body
BodyAddUsage(s, model, prompt_tokens, completion_tokens) ==
  LET r == add_usage(scope[s].tracker, PRICE_STRICT, model, prompt_tokens,
                     completion_tokens)
  IN /\ scope[s].pc = "body"
     /\ Within(r.total_usd)
     /\ scope' = IF r.raised = "none"
                   THEN charge_scope(scope, s, r.total_usd)
                   ELSE [scope EXCEPT ![s].pc = "finally", ![s].inflight = r.raised,
                                      ![s].exc = r.exc]
     /\ UNCHANGED <<scopeRest, _PRICE_CACHE, _PRICE_CACHE_MTIME>>

\* the body raises something that is no charge error
BodyRaise(s) ==
  /\ scope[s].pc = "body"
  /\ scope' = [scope EXCEPT ![s].pc = "finally", ![s].inflight = "RuntimeError"]
  /\ UNCHANGED <<scopeRest, _PRICE_CACHE, _PRICE_CACHE_MTIME>>

\* the body runs to its end
BodyEnd(s) ==
  /\ scope[s].pc = "body"
  /\ scope' = [scope EXCEPT ![s].pc = "finally"]
  /\ UNCHANGED <<scopeRest, _PRICE_CACHE, _PRICE_CACHE_MTIME>>

GuardFinally(s) ==
  /\ scope[s].pc = "finally"
  /\ scope' = [scope EXCEPT ![s] = finally_block(scope[s])]
  /\ UNCHANGED <<scopeRest, _PRICE_CACHE, _PRICE_CACHE_MTIME>>

\* environments of the guarded runs: a cap of $0.006 and one priced model
ScopeBase == (<<"COST_CAP_USD">> :> <<"0.006">>) @@ (PriceInputKey :> <<"0.005">>)
ScopeEnvirons ==
  {ScopeBase, ScopeBase @@ (<<"COST_ENFORCE">> :> <<"soft">>),
   ScopeBase @@ (<<"PRICE_STRICT">> :> <<"1">>),
   (<<"COST_CAP_USD">> :> <<"abc">>)}

NextScopes ==
  \/ \E s \in Scopes : GuardEnter(s)
  \/ \E s \in Scopes, m \in {gpt4o, ghost}, p \in TokenCounts :
        BodyAddUsage(s, m, p, 0)
  \/ \E s \in Scopes : BodyRaise(s)
  \/ \E s \in Scopes : BodyEnd(s)
  \/ \E s \in Scopes : GuardFinally(s)

InitGuarded ==
  /\ InitFrom(ScopeEnvirons)
  /\ lastLoad = NoLoad
  /\ source = JNull
  /\ built = None
  /\ InitThreads
  /\ InitScopes

SpecScopes == InitGuarded /\ [][NextScopes]_vars

\* trackers whose explicit table has lower-case or upper-case keys
NextCase ==
  \/ \E c \in {0, 6}, t \in {EmptyTable, TableG, TableUpper} :
        Construct(Budget(c, 800, <<"strict">>), t)
  \/ \E m \in ModelArgs, p \in TokenCounts, c \in TokenCounts : AddUsage(m, p, c)

SpecCase == Init /\ [][NextCase]_vars

(***************************************************************************)
(* Properties                                                              *)
(***************************************************************************)
\* the last call on the tracker was add_usage or add_cost_dollars
IsCharge == constructed /\ last.op \in {"add_usage", "add_cost_dollars"}

\* the price the last add_usage call resolved: (0, 0) for an unknown model
LastPrices ==
  IF lower(last.model) \in DOMAIN tracker.price_table
    THEN tracker.price_table[lower(last.model)]
    ELSE <<0, 0>>

\* the charge of the last call, from its arguments
LastCharge ==
  IF last.op = "add_cost_dollars" THEN last.usd
  ELSE (last.prompt_tokens * LastPrices[1]
          + last.completion_tokens * LastPrices[2]) \div 1000

StrictCapped ==
  tracker.budget.cap_usd > 0 /\ tracker.budget.enforce_mode = <<"strict">>

\* C1: in strict mode with a positive cap, a charge whose attempted total
\* (total before the call + charge) is >= cap raises CostCapExceeded and
\* leaves total_usd at its pre-call value.
C1_NoPartialCommit ==
  (IsCharge /\ StrictCapped
     /\ last.pre_total + LastCharge >= tracker.budget.cap_usd)
  => (last.raised = "CostCapExceeded" /\ tracker.total_usd = last.pre_total)

C1_Witness ==
  /\ IsCharge /\ StrictCapped
  /\ last.op = "add_usage"
  /\ last.pre_total + LastCharge >= tracker.budget.cap_usd
  /\ last.raised = "CostCapExceeded"
  /\ tracker.total_usd = last.pre_total

\* C2: in strict mode with a positive cap, total_usd and every returned
\* total stay strictly below cap_usd, after accepted and rejected calls alike.
C2_StrictTotalBelowCap ==
  (constructed /\ StrictCapped)
  => /\ tracker.total_usd < tracker.budget.cap_usd
     /\ (last.ret # None => last.ret[1] < tracker.budget.cap_usd)

C2_Witness ==
  /\ IsCharge /\ StrictCapped
  /\ last.raised = "CostCapExceeded"
  /\ tracker.total_usd > 0

\* C3: total_usd never decreases: after every add_usage or add_cost_dollars
\* call the total is >= the total before the call.
C3_TotalNeverDecreases ==
  IsCharge => tracker.total_usd >= last.pre_total

\* C4: the strict boundary is inclusive: an attempted total equal to the cap
\* is rejected with CostCapExceeded, an attempted total below it is committed.
C4_BoundaryInclusive ==
  (IsCharge /\ StrictCapped)
  => /\ (last.pre_total + LastCharge = tracker.budget.cap_usd
           => last.raised = "CostCapExceeded"
              /\ tracker.total_usd = last.pre_total)
     /\ (last.pre_total + LastCharge < tracker.budget.cap_usd
           => last.raised # "CostCapExceeded"
              /\ tracker.total_usd = last.pre_total + LastCharge)

C4_Witness ==
  /\ IsCharge /\ StrictCapped
  /\ last.pre_total + LastCharge = tracker.budget.cap_usd
  /\ last.raised = "CostCapExceeded"

\* C5: in soft mode no charge raises CostCapExceeded and every charge is
\* committed, so the total may reach or exceed the cap.
C5_SoftNeverBlocks ==
  (IsCharge /\ tracker.budget.enforce_mode = <<"soft">>)
  => /\ last.raised # "CostCapExceeded"
     /\ tracker.total_usd = last.pre_total + LastCharge

C5_Witness ==
  /\ IsCharge
  /\ tracker.budget.enforce_mode = <<"soft">>
  /\ tracker.budget.cap_usd > 0
  /\ last.raised = "none"
  /\ last.pre_total < tracker.budget.cap_usd
  /\ tracker.total_usd > tracker.budget.cap_usd

\* C6: with cap_usd <= 0 no charge raises CostCapExceeded in any enforce
\* mode, every charge is committed, and near_threshold() returns false.
C6_NonPositiveCapDisables ==
  (constructed /\ tracker.budget.cap_usd <= 0)
  => /\ (IsCharge => /\ last.raised # "CostCapExceeded"
                     /\ tracker.total_usd = last.pre_total + LastCharge)
     /\ (last.op = "near_threshold" => ~last.near)

C6_Witness ==
  /\ IsCharge
  /\ tracker.budget.cap_usd <= 0
  /\ tracker.budget.enforce_mode = <<"strict">>
  /\ LastCharge > 0
  /\ last.raised = "none"
  /\ tracker.total_usd = last.pre_total + LastCharge

\* C7 as stated: for a model present in the price table, add_usage increases
\* total_usd by exactly prompt/1000*in + completion/1000*out and returns the
\* new total.
C7_AddUsageAlwaysCharges ==
  (constructed /\ last.op = "add_usage" /\ last.known)
  => /\ tracker.total_usd = last.pre_total + LastCharge
     /\ last.ret = Some(tracker.total_usd)

\* C7 as amended: the same, for every add_usage call that is not rejected
\* with CostCapExceeded; a rejected call returns nothing and leaves the
\* total as it was.
C7_AddUsageChargesUnlessRejected ==
  (constructed /\ last.op = "add_usage" /\ last.known)
  => IF last.raised = "CostCapExceeded"
       THEN /\ StrictCapped
            /\ last.pre_total + LastCharge >= tracker.budget.cap_usd
            /\ tracker.total_usd = last.pre_total
            /\ last.ret = None
       ELSE /\ tracker.total_usd = last.pre_total + LastCharge
            /\ last.ret = Some(tracker.total_usd)

C7_Witness ==
  /\ constructed /\ last.op = "add_usage" /\ last.known
  /\ last.prompt_tokens > 0 /\ last.completion_tokens > 0
  /\ LastPrices[1] # LastPrices[2]
  /\ last.raised = "none"
  /\ last.ret = Some(last.pre_total + LastCharge)

\* C8: CostCapExceeded is raised by the charge call that triggers it and
\* carries attempted = total before the call + charge and cap = cap_usd;
\* the 402 response of the HTTP handler reports the values the exception
\* carries.
C8_ExceptionCarriesAttemptedAndCap ==
  /\ (IsCharge /\ last.raised = "CostCapExceeded")
     => /\ last.exc # None
        /\ last.exc[1].attempted = last.pre_total + LastCharge
        /\ last.exc[1].cap = tracker.budget.cap_usd
  /\ (IsCharge /\ last.raised # "CostCapExceeded") => last.exc = None
  /\ (response # None)
     => IF ask_exc # None
          THEN /\ response[1].status_code = 402
               /\ response[1].cap = Some(ask_exc[1].cap)
               /\ response[1].attempted = Some(ask_exc[1].attempted)
          ELSE response[1].status_code # 402

C8_Witness ==
  /\ IsCharge /\ last.raised = "CostCapExceeded"
  /\ last.pre_total > 0
  /\ response # None
  /\ response[1].status_code = 402
  /\ response[1].attempted = Some(7)
  /\ response[1].cap = Some(6)

\* C9: with PRICE_STRICT = "1" in the environment before the tracker is
\* constructed and used, add_usage for a model absent from the price table
\* raises KeyError and leaves total_usd unchanged; with PRICE_STRICT "0" or
\* unset the call is priced at (0, 0), does not raise, and leaves the total
\* unchanged.
C9_UnknownModelDuality ==
  (constructed /\ last.op = "add_usage" /\ ~last.known
     /\ ctor_env = EnvLookup(environ, <<"PRICE_STRICT">>))
  => /\ tracker.total_usd = last.pre_total
     /\ IF ctor_env = Some(<<"1">>)
          THEN last.raised = "KeyError"
          ELSE last.raised = "none" /\ last.ret = Some(last.pre_total)

\* C10: near_threshold() returns true exactly when cap_usd > 0 and
\* total_usd >= cap_usd * warn_threshold_pct, and a call to it changes
\* neither total_usd nor the budget nor the price table.
C10_NearThreshold ==
  /\ [](constructed /\ last.op = "near_threshold"
          => last.near = (tracker.budget.cap_usd > 0
                          /\ tracker.total_usd * 1000
                               >= tracker.budget.cap_usd
                                    * tracker.budget.warn_threshold_pct))
  /\ [][last'.op = "near_threshold" => tracker' = tracker]_vars

C10_Witness ==
  /\ constructed /\ last.op = "near_threshold"
  /\ last.near
  /\ tracker.total_usd * 1000
       = tracker.budget.cap_usd * tracker.budget.warn_threshold_pct

\* the keys of the tracker's table that equal the model name of the last
\* add_usage call up to letter case
CaseMatches ==
  {k \in DOMAIN tracker.price_table : lower(k) = lower(last.model)}

\* the charge of the last add_usage call at the prices of table key k
ChargeAt(k) ==
  (last.prompt_tokens * tracker.price_table[k][1]
     + last.completion_tokens * tracker.price_table[k][2]) \div 1000

\* C11: add_usage resolves the model name case-insensitively: a name that
\* differs from a table key only in letter case is charged at that key's
\* price (never treated as unknown).
C11_CaseInsensitive ==
  (constructed /\ last.op = "add_usage")
  => \A k \in CaseMatches :
       /\ last.raised # "KeyError"
       /\ last.raised = "none" => tracker.total_usd = last.pre_total + ChargeAt(k)

\* C11 as amended: add_usage lower-cases the model name and looks that up
\* exactly: a name whose lower-case form is a table key is charged at that
\* key's price; a name whose lower-case form is no table key is treated as
\* unknown, also when a key spelled with upper-case letters equals it.
C11_LowercaseLookup ==
  (constructed /\ last.op = "add_usage")
  => IF lower(last.model) \in DOMAIN tracker.price_table
       THEN /\ last.raised # "KeyError"
            /\ last.raised = "none"
                 => tracker.total_usd = last.pre_total + ChargeAt(lower(last.model))
            /\ last.raised = "CostCapExceeded"
                 => last.exc[1].attempted
                      = last.pre_total + ChargeAt(lower(last.model))
       ELSE /\ tracker.total_usd = last.pre_total
            /\ last.raised \in {"none", "KeyError"}

C11_Witness ==
  /\ constructed /\ last.op = "add_usage"
  /\ last.model = GPT4O
  /\ gpt4o \in DOMAIN tracker.price_table
  /\ last.prompt_tokens > 0
  /\ last.raised = "none"
  /\ tracker.total_usd = last.pre_total + ChargeAt(gpt4o)
  /\ tracker.total_usd > last.pre_total

\* the table a fresh parse of registry file reg yields
ParsedTable(reg) == _build_table(_iter_records(reg.json.blob)).table

\* C12: reload-on-change: when the registry file's content and modification
\* time changed after the load that filled the cache, the next
\* load_price_table_from_json call returns the table parsed from the new
\* content, also inside the 300-second TTL window.
C12_ReloadOnChange ==
  (/\ lastLoad.fn = "json"
   /\ lastLoad.reg.exists /\ lastLoad.reg.json.ok
   /\ lastLoad.pre_cache # None /\ lastLoad.pre_mtime # None
   /\ lastLoad.pre_mtime # Some(lastLoad.reg.mtime))
  => /\ lastLoad.raised = "none"
     /\ lastLoad.table = ParsedTable(lastLoad.reg)

ExpiredUnchanged(l) ==
  /\ l.fn = "json"
  /\ l.reg.exists
  /\ l.pre_cache # None
  /\ l.pre_mtime = Some(l.reg.mtime)
  /\ l.clock - l.reg.mtime >= _PRICE_CACHE_TTL_SECS

C20_MissingFileRaises ==
  (lastLoad.fn = "json" /\ ~lastLoad.reg.exists)
  => /\ lastLoad.raised = "FileNotFoundError"
     /\ lastLoad.table = <<>>
     /\ ~lastLoad.stat /\ ~lastLoad.read
     /\ _PRICE_CACHE = lastLoad.pre_cache
     /\ _PRICE_CACHE_MTIME = lastLoad.pre_mtime

C20_Witness ==
  /\ lastLoad.fn = "json" /\ ~lastLoad.reg.exists
  /\ lastLoad.pre_cache # None /\ lastLoad.pre_cache[1] # <<>>
  /\ lastLoad.pre_mtime # None
  /\ lastLoad.clock - lastLoad.pre_mtime[1] < _PRICE_CACHE_TTL_SECS
  /\ lastLoad.raised = "FileNotFoundError"

\* positions from the first cache test to the last cache write
InCheckThenReload ==
  {"ttl_cache", "ttl_mtime", "ttl_cmp", "ttl_ret", "stat", "mt_cache", "mt_cmp",
   "mt_ret", "open", "store_cache", "store_mtime"}

SourceRecords == FilterDicts(source.v)
BuiltTable == built[1].table

\* a record that is active, names its model with a non-blank string and has
\* two prices float() accepts
WellFormed(rec) ==
  /\ ~("active" \in DOMAIN rec /\ ~Truthy(rec["active"]))
  /\ "model" \in DOMAIN rec /\ rec["model"].kind = "str"
  /\ strip(rec["model"].v) # <<>>
  /\ "input_per_1k_usd" \in DOMAIN rec /\ float(rec["input_per_1k_usd"]).ok
  /\ "output_per_1k_usd" \in DOMAIN rec /\ float(rec["output_per_1k_usd"]).ok

Accepted == {i \in DOMAIN SourceRecords : WellFormed(SourceRecords[i])}

CanonicalKey(rec) == lower(strip(rec["model"].v))

\* the non-empty normalized aliases of a record
AliasKeys(rec) ==
  IF "aliases" \in DOMAIN rec /\ rec["aliases"].kind = "list"
    THEN {lower(strip(str(rec["aliases"].v[n]))) : n \in DOMAIN rec["aliases"].v}
           \ {<<>>}
    ELSE {}

KeysOf(rec) == {CanonicalKey(rec)} \cup AliasKeys(rec)

PricesOf(rec) ==
  <<float(rec["input_per_1k_usd"]).val, float(rec["output_per_1k_usd"]).val>>

\* the last accepted record that declares key k
LastDeclaring(k) ==
  CHOOSE i \in Accepted :
    /\ k \in KeysOf(SourceRecords[i])
    /\ \A j \in Accepted : k \in KeysOf(SourceRecords[j]) => j <= i

C17_MalformedSkipped ==
  built # None
  => /\ ~built[1].raised
     /\ DOMAIN BuiltTable = UNION {KeysOf(SourceRecords[i]) : i \in Accepted}
     /\ \A k \in DOMAIN BuiltTable :
          BuiltTable[k] = PricesOf(SourceRecords[LastDeclaring(k)])

\* C18: fallback composition: when the registry path names a nonexistent
\* file, load_price_table_auto returns exactly the table
\* load_price_table_from_env returns for the same environment, and never
\* raises.
C18_FallbackComposition ==
  (lastLoad.fn = "auto" /\ ~lastLoad.reg.exists)
  => /\ lastLoad.raised = "none"
     /\ lastLoad.table = load_price_table_from_env(lastLoad.env).table

\* C19: loader failures never reach the tracker: whatever the registry file
\* (missing, invalid JSON, valid) and the PRICE__ variables (numeric or
\* not), load_price_table_auto, CostTracker construction without a table
\* and entry into cost_guard complete without raising.
C19_LoaderNeverRaises ==
  lastLoad.fn \in {"auto", "ctor", "guard"} => lastLoad.raised = "none"

\* the model a PRICE__<MODEL>__INPUT key names, as spelled
ModelOf(k) == SubSeq(k, 2, Len(k) - 1)

\* the prices the environment env gives for INPUT key k: the OUTPUT price
\* is 0 when the OUTPUT key of the same spelling is absent or blank
EnvPrices(env, k) ==
  LET out == <<"PRICE__">> \o ModelOf(k) \o <<"__OUTPUT">>
  IN <<FloatLiterals[env[k]],
       IF out \in DOMAIN env /\ env[out] # <<>> THEN FloatLiterals[env[out]] ELSE 0>>

\* the INPUT key for model m that the last load visited last
LastKeyFor(m) ==
  LET o == lastLoad.order
      at == CHOOSE i \in DOMAIN o :
              /\ o[i] \in InputKeys(lastLoad.env) /\ lower(ModelOf(o[i])) = m
              /\ \A j \in DOMAIN o :
                   (o[j] \in InputKeys(lastLoad.env) /\ lower(ModelOf(o[j])) = m) => j <= i
  IN o[at]

JsonAtLastLoad ==
  load_price_table_from_json(lastLoad.reg, lastLoad.pre_cache, lastLoad.pre_mtime,
                             lastLoad.clock)

\* C22: the tracker yielded by cost_guard uses the table of the composite
\* "auto" resolution: the JSON registry's table whenever the registry
\* loads, the environment table only when the structured load fails.
C22_GuardUsesAutoTable ==
  (lastLoad.fn = "guard" /\ lastLoad.raised = "none")
  => lastLoad.table =
       IF JsonAtLastLoad.raised = "none"
         THEN JsonAtLastLoad.table
         ELSE load_price_table_from_env(lastLoad.env).table

\* C23: whichever way the body of a cost_guard scope ends (normally, with
\* CostCapExceeded or with any other exception) the finally block of the guard
\* has run exactly once when the scope is left, never before, and what the
\* body raised is what the caller of the scope receives.
C23_TeardownOnce ==
  \A s \in Scopes :
    /\ scope[s].pc \in {"body", "finally"} => scope[s].teardowns = 0
    /\ scope[s].pc = "exited" =>
         /\ scope[s].teardowns = 1
         /\ scope[s].propagated = scope[s].inflight
         /\ scope[s].propagated_exc = scope[s].exc

C23_Witness ==
  /\ scope[1].pc = "exited"
  /\ scope[1].propagated = "CostCapExceeded"
  /\ scope[1].propagated_exc # None
  /\ scope[2].pc = "exited"
  /\ scope[2].propagated = "RuntimeError"

\* C24: a scope starts its body with a tracker whose total_usd is 0, and a step
\* that changes one scope (its entry, a charge through its tracker, its end)
\* leaves the tracker of every other scope as it was.
C24_PerRunIsolation ==
  [][/\ \A s \in Scopes :
          (scope[s].pc # "body" /\ scope'[s].pc = "body")
            => scope'[s].tracker.total_usd = 0
     /\ \A s, t \in Scopes :
          (s # t /\ scope'[s] # scope[s]) => scope'[t].tracker = scope[t].tracker]_vars

C24_Witness ==
  /\ scope[1].pc = "body"
  /\ scope[2].pc = "body"
  /\ scope[1].tracker.total_usd = 10
  /\ scope[2].tracker.total_usd = 5

\* C25: in every state of every interleaving of concurrent loader calls and
\* file edits the cache pair is consistent: when _PRICE_CACHE_MTIME is the
\* mtime of a version of the file, here the version now on disk, _PRICE_CACHE
\* is the table parsed from that version.
C25_CachePairConsistent ==
  (registry.exists /\ registry.json.ok /\ _PRICE_CACHE_MTIME = Some(registry.mtime))
    => _PRICE_CACHE = Some(ParsedTable(registry))

\* C26: the table load_price_table_from_json(path) returns is built from the
\* file at that path: a call for the other file that follows a call for the
\* default file returns the table of the other file.
C26_TableOfThePath ==
  (/\ lastLoad.fn = "json_at" /\ lastLoad.raised = "none"
   /\ lastLoad.reg = OtherRegistry
   /\ lastLoad.prev.fn = "json_at" /\ lastLoad.prev.raised = "none"
   /\ lastLoad.prev.reg # OtherRegistry)
    => lastLoad.table = ParsedTable(OtherRegistry)

\* C27: a rejection does not latch: when a strict tracker has rejected a charge
\* with CostCapExceeded, the next charge whose amount added to the total the
\* rejected call started from stays below cap_usd is accepted, and the total
\* becomes that sum.
C27_RejectionDoesNotLatch ==
  (/\ IsCharge /\ StrictCapped
   /\ last.prev_raised = "CostCapExceeded"
   /\ last.prev_total + LastCharge < tracker.budget.cap_usd
   /\ last.raised # "KeyError")
    => /\ last.raised = "none"
       /\ tracker.total_usd = last.prev_total + LastCharge

C27_Witness ==
  /\ IsCharge /\ StrictCapped
  /\ last.op = "add_usage"
  /\ last.prev_raised = "CostCapExceeded"
  /\ LastCharge > 0
  /\ last.raised = "none"
  /\ tracker.total_usd = last.prev_total + LastCharge

\* C28: a tracker constructed with an explicit price_table resolves models
\* from that table only: its table is the one passed, and with an empty table
\* passed every model of an add_usage call is unknown.
C28_ExplicitTableOnly ==
  (constructed /\ lastLoad.fn = "explicit" /\ lastLoad.raised = "none")
    => /\ tracker.price_table = lastLoad.table
       /\ (last.op = "add_usage" /\ lastLoad.table = EmptyTable) => ~last.known

\* C29: only enforce_mode exactly 'strict' rejects: a tracker whose budget
\* carries any other value ('Strict', 'STRICT', a misspelling) commits every
\* charge like a soft one and never raises CostCapExceeded, while a budget
\* from load_budget_from_env carries 'strict', and enforces the cap, for
\* every letter-case spelling of 'strict' in COST_ENFORCE.
C29_ExactlyStrictEnforces ==
  /\ (IsCharge /\ tracker.budget.enforce_mode # <<"strict">>
        /\ last.raised # "KeyError")
       => /\ last.raised = "none"
          /\ tracker.total_usd = last.pre_total + LastCharge
  /\ (constructed /\ lastLoad.fn = "budget_env"
        /\ EnvGet(lastLoad.env, <<"COST_ENFORCE">>, <<"strict">>) \in StrictSpellings)
       => /\ tracker.budget.enforce_mode = <<"strict">>
          /\ (IsCharge /\ last.pre_total + LastCharge >= tracker.budget.cap_usd)
               => last.raised = "CostCapExceeded"

C29_Witness ==
  /\ IsCharge
  /\ lastLoad.fn = "budget_direct"
  /\ tracker.budget.enforce_mode = <<"STRICT">>
  /\ tracker.budget.cap_usd > 0
  /\ last.pre_total + LastCharge >= tracker.budget.cap_usd
  /\ last.raised = "none"

\* C30: a call of load_price_table_from_json that fails (file missing, not
\* JSON, or a record that makes the table build raise) leaves _PRICE_CACHE and
\* _PRICE_CACHE_MTIME as they were before the call.
C30_FailedLoadKeepsCache ==
  (lastLoad.fn = "json" /\ lastLoad.raised # "none")
    => /\ _PRICE_CACHE = lastLoad.pre_cache
       /\ _PRICE_CACHE_MTIME = lastLoad.pre_mtime

C30_Witness ==
  /\ lastLoad.fn = "json"
  /\ lastLoad.raised = "AttributeError"
  /\ lastLoad.pre_cache # None
  /\ _PRICE_CACHE = lastLoad.pre_cache
  /\ _PRICE_CACHE_MTIME = lastLoad.pre_mtime

\* the part of a key after its first colon; nothing when it has no colon
AfterFirstColon(key) ==
  IF \E i \in DOMAIN key : key[i] = ":"
    THEN SubSeq(key, (CHOOSE n \in DOMAIN key :
                        key[n] = ":" /\ \A m \in 1..(n - 1) : key[m] # ":") + 1,
                Len(key))
    ELSE <<>>

\* a body that carries both prices as numbers
PricedBody(rec) ==
  /\ "input_per_1k_usd" \in DOMAIN rec /\ float(rec["input_per_1k_usd"]).ok
  /\ "output_per_1k_usd" \in DOMAIN rec /\ float(rec["output_per_1k_usd"]).ok

\* the entries of a map-form source whose body is a well-formed active object
MapEntries ==
  IF source.kind # "map" THEN {}
  ELSE {i \in DOMAIN source.v :
          /\ source.v[i][2].kind = "dict"
          /\ PricedBody(source.v[i][2].v)
          /\ _record_active(source.v[i][2].v)}

\* C31: in a map-form source keyed by 'provider:model', every entry with a
\* well-formed active body yields the table key normalize(m), m being the part
\* of the entry's key after its first colon.
C31_MapKeyAfterFirstColon ==
  (built # None /\ ~built[1].raised)
    => \A i \in MapEntries :
         _normalize(AfterFirstColon(source.v[i][1])) # <<>>
           => _normalize(AfterFirstColon(source.v[i][1])) \in DOMAIN built[1].table
====
